---- MODULE Spec2Model ----
(***************************************************************************)
(* Lead capture and user de-duplication of the Sathyabama chatbot:         *)
(* UserManager, the three validators, smart_capture_user_details and       *)
(* save_to_csv of utils/improved_user_tools.py.                            *)
(*                                                                         *)
(* A Python str is a sequence of one-character strings; None is a value    *)
(* that is no such sequence.  The users and interactions tables are        *)
(* sequences of rows whose position is the AUTOINCREMENT id (no row is     *)
(* ever deleted), data/user_details.csv is a sequence of lines.            *)
(*                                                                         *)
(* No method of UserManager closes its connection when execute raises.    *)
(* After a refused INSERT or UPDATE the abandoned connection keeps its     *)
(* open transaction, and with it the write lock of the database file,      *)
(* until the garbage collector frees it: locked says that such a           *)
(* connection exists.  Meanwhile every other write raises "database is     *)
(* locked"; reads still succeed.                                           *)
(***************************************************************************)
EXTENDS Integers, Sequences, FiniteSets, TLC

VARIABLES users, interactions, locked, csv, now, calls, faulty,
          pc, ud, pos, user_id, record, file_exists, attempt, result, fault,
          stats, checked

vars == <<users, interactions, locked, csv, now, calls, faulty,
          pc, ud, pos, user_id, record, file_exists, attempt, result, fault,
          stats, checked>>

(* ---------------------------- bounds ----------------------------------- *)

MaxCalls == 3

MaxTime == 1

MaxFaulty == 1

\* longest run of "0" and "-" after the first two characters of a phone value
MaxPhoneTail == 10

\* longest email value, a closing newline not counted
MaxEmailLen == 5

\* longest run of "A" in a reg_no value
MaxRegPad == 16

Procs == {1, 2}

(* ---------------------------- values ----------------------------------- *)

None == <<"None">>

Absent == <<"Absent">>

NoId == 0

Digits == {"0", "1", "2", "3", "4", "5", "6", "7", "8", "9"}

Letters ==
    {"a", "b", "c", "d", "e", "f", "g", "h", "i", "j", "k", "l", "m",
     "n", "o", "p", "q", "r", "s", "t", "u", "v", "w", "x", "y", "z",
     "A", "B", "C", "D", "E", "F", "G", "H", "I", "J", "K", "L", "M",
     "N", "O", "P", "Q", "R", "S", "T", "U", "V", "W", "X", "Y", "Z"}

Truthy(v) == v # None /\ v # <<>>

IdentifierFields == <<"reg_no", "phone", "email">>

MeaningfulFields == {"name", "reg_no", "phone", "email"}

DefaultContext == <<"i", "n", "f", "o">>

(* ---------------------------- validators ------------------------------- *)

IsDigit(c) == c \in Digits

Alnum == Digits \cup Letters

\* re.match(... "$"): the end of the pattern also matches just before one
\* trailing newline.
DollarBody(s) ==
    IF Len(s) > 0 /\ s[Len(s)] = "\n" THEN {s, SubSeq(s, 1, Len(s) - 1)} ELSE {s}

\* s[lo..hi] matches [class]*
AllIn(s, lo, hi, class) == \A i \in lo..hi : s[i] \in class

\* the pattern without its closing "$"
validate_phone_prefix(phone) ==
    IF ~Truthy(phone) THEN TRUE
    ELSE LET clean_phone == SelectSeq(phone, IsDigit)
         IN  /\ Len(clean_phone) >= 10
             /\ clean_phone[1] \in {"6", "7", "8", "9"}

validate_phone(phone) ==
    IF ~Truthy(phone) THEN TRUE
    ELSE LET clean_phone == SelectSeq(phone, IsDigit)
         IN  /\ Len(clean_phone) = 10
             /\ clean_phone[1] \in {"6", "7", "8", "9"}

\* [a-zA-Z0-9_.+-]
EmailLocal == Alnum \cup {"_", ".", "+", "-"}

\* [a-zA-Z0-9-]
EmailLabel == Alnum \cup {"-"}

\* [a-zA-Z0-9-.]
EmailTail == Alnum \cup {"-", "."}

\* the pattern with "%" among the characters before the "@"
validate_email_percent(email) ==
    IF ~Truthy(email) THEN TRUE
    ELSE \E s \in DollarBody(email) :
           \E i \in 2..Len(s) : \E j \in (i + 2)..(Len(s) - 1) :
              /\ s[i] = "@"
              /\ s[j] = "."
              /\ AllIn(s, 1, i - 1, EmailLocal \cup {"%"})
              /\ AllIn(s, i + 1, j - 1, EmailLabel)
              /\ AllIn(s, j + 1, Len(s), EmailTail)

validate_email(email) ==
    IF ~Truthy(email) THEN TRUE
    ELSE \E s \in DollarBody(email) :
           \E i \in 2..Len(s) : \E j \in (i + 2)..(Len(s) - 1) :
              /\ s[i] = "@"
              /\ s[j] = "."
              /\ AllIn(s, 1, i - 1, EmailLocal)
              /\ AllIn(s, i + 1, j - 1, EmailLabel)
              /\ AllIn(s, j + 1, Len(s), EmailTail)

validate_reg_no(reg_no) ==
    IF ~Truthy(reg_no) THEN TRUE
    ELSE \E s \in DollarBody(reg_no) :
           /\ Len(s) >= 5
           /\ Len(s) <= 15
           /\ AllIn(s, 1, Len(s), Alnum)

(* ---------------------------- UserManager ------------------------------ *)

extract_identifiers(user_details) ==
    SelectSeq([k \in 1..3 |-> <<IdentifierFields[k], user_details[IdentifierFields[k]]>>],
              LAMBDA pr : Truthy(pr[2]))

\* the SELECT comparing phone values by their digits only
SelectId_normalised(us, field, value) ==
    LET Norm(v) == IF field = "phone" THEN SelectSeq(v, IsDigit) ELSE v
        hits == {i \in DOMAIN us : us[i][field] # None /\ Norm(us[i][field]) = Norm(value)}
    IN  IF hits = {} THEN NoId ELSE CHOOSE i \in hits : \A k \in hits : i <= k

\* SELECT id FROM users WHERE field = ? ; fetchone()
SelectId(us, field, value) ==
    LET hits == {i \in DOMAIN us : us[i][field] # None /\ us[i][field] = value}
    IN  IF hits = {} THEN NoId ELSE CHOOSE i \in hits : \A k \in hits : i <= k

RECURSIVE FindFrom(_, _, _)
FindFrom(us, identifiers, k) ==
    IF k > Len(identifiers) THEN NoId
    ELSE LET hit == SelectId(us, identifiers[k][1], identifiers[k][2])
         IN  IF hit # NoId THEN hit ELSE FindFrom(us, identifiers, k + 1)

\* the loop run over the identifiers from the last to the first
find_existing_user_reversed(us, identifiers) ==
    FindFrom(us, [k \in 1..Len(identifiers) |-> identifiers[Len(identifiers) + 1 - k]], 1)

find_existing_user(us, identifiers) == FindFrom(us, identifiers, 1)

\* every caller taken for a new user
is_new_user_always(us, user_details) == TRUE

is_new_user(us, user_details) ==
    find_existing_user(us, extract_identifiers(user_details)) = NoId

\* the tables declared without UNIQUE
UniqueOk_unchecked(us, row, self) == TRUE

\* reg_no TEXT UNIQUE, phone TEXT UNIQUE, email TEXT UNIQUE: NULLs never clash.
UniqueOk(us, row, self) ==
    \A i \in DOMAIN us \ {self} : \A k \in 1..3 :
        LET f == IdentifierFields[k]
        IN  row[f] # None => us[i][f] # row[f]

\* the INSERT with is_lead 0
create_new_user_no_lead(us, user_details, t) ==
    LET row == [name |-> user_details.name,
                reg_no |-> user_details.reg_no,
                phone |-> user_details.phone,
                email |-> user_details.email,
                first_interaction |-> t,
                last_interaction |-> t,
                interaction_count |-> 1,
                is_lead |-> FALSE]
    IN  IF UniqueOk(us, row, NoId)
        THEN [ok |-> TRUE, users |-> Append(us, row), user_id |-> Len(us) + 1]
        ELSE [ok |-> FALSE, users |-> us, user_id |-> NoId]

\* the INSERT into a table whose interaction_count defaults to 0
create_new_user_uncounted(us, user_details, t) ==
    LET row == [name |-> user_details.name,
                reg_no |-> user_details.reg_no,
                phone |-> user_details.phone,
                email |-> user_details.email,
                first_interaction |-> t,
                last_interaction |-> t,
                interaction_count |-> 0,
                is_lead |-> TRUE]
    IN  IF UniqueOk(us, row, NoId)
        THEN [ok |-> TRUE, users |-> Append(us, row), user_id |-> Len(us) + 1]
        ELSE [ok |-> FALSE, users |-> us, user_id |-> NoId]

create_new_user(us, user_details, t) ==
    LET row == [name |-> user_details.name,
                reg_no |-> user_details.reg_no,
                phone |-> user_details.phone,
                email |-> user_details.email,
                first_interaction |-> t,
                last_interaction |-> t,
                interaction_count |-> 1,
                is_lead |-> TRUE]
    IN  IF UniqueOk(us, row, NoId)
        THEN [ok |-> TRUE, users |-> Append(us, row), user_id |-> Len(us) + 1]
        ELSE [ok |-> FALSE, users |-> us, user_id |-> NoId]

\* the UPDATE without "last_interaction = CURRENT_TIMESTAMP"
update_existing_user_stale(us, id, user_details, t) ==
    IF id \notin DOMAIN us
    THEN [ok |-> TRUE, users |-> us]
    ELSE LET old == us[id]
             Set(f) == IF Truthy(user_details[f]) THEN user_details[f] ELSE old[f]
             row == [old EXCEPT !.name = Set("name"), !.reg_no = Set("reg_no"),
                                !.phone = Set("phone"), !.email = Set("email"),
                                !.interaction_count = old.interaction_count + 1]
         IN  IF UniqueOk(us, row, id)
             THEN [ok |-> TRUE, users |-> [us EXCEPT ![id] = row]]
             ELSE [ok |-> FALSE, users |-> us]

\* the UPDATE without "interaction_count = interaction_count + 1"
update_existing_user_uncounted(us, id, user_details, t) ==
    IF id \notin DOMAIN us
    THEN [ok |-> TRUE, users |-> us]
    ELSE LET old == us[id]
             Set(f) == IF Truthy(user_details[f]) THEN user_details[f] ELSE old[f]
             row == [old EXCEPT !.name = Set("name"), !.reg_no = Set("reg_no"),
                                !.phone = Set("phone"), !.email = Set("email"),
                                !.last_interaction = t]
         IN  IF UniqueOk(us, row, id)
             THEN [ok |-> TRUE, users |-> [us EXCEPT ![id] = row]]
             ELSE [ok |-> FALSE, users |-> us]

\* the UPDATE that sets all four fields, None for those the bag lacks
update_existing_user_overwriting(us, id, user_details, t) ==
    IF id \notin DOMAIN us
    THEN [ok |-> TRUE, users |-> us]
    ELSE LET old == us[id]
             row == [name |-> user_details.name,
                     reg_no |-> user_details.reg_no,
                     phone |-> user_details.phone,
                     email |-> user_details.email,
                     first_interaction |-> old.first_interaction,
                     last_interaction |-> t,
                     interaction_count |-> old.interaction_count + 1,
                     is_lead |-> old.is_lead]
         IN  IF UniqueOk(us, row, id)
             THEN [ok |-> TRUE, users |-> [us EXCEPT ![id] = row]]
             ELSE [ok |-> FALSE, users |-> us]

\* the UPDATE that also sets first_interaction = CURRENT_TIMESTAMP
update_existing_user_restamped(us, id, user_details, t) ==
    IF id \notin DOMAIN us
    THEN [ok |-> TRUE, users |-> us]
    ELSE LET old == us[id]
             Set(f) == IF Truthy(user_details[f]) THEN user_details[f] ELSE old[f]
             row == [name |-> Set("name"),
                     reg_no |-> Set("reg_no"),
                     phone |-> Set("phone"),
                     email |-> Set("email"),
                     first_interaction |-> t,
                     last_interaction |-> t,
                     interaction_count |-> old.interaction_count + 1,
                     is_lead |-> old.is_lead]
         IN  IF UniqueOk(us, row, id)
             THEN [ok |-> TRUE, users |-> [us EXCEPT ![id] = row]]
             ELSE [ok |-> FALSE, users |-> us]

\* the UPDATE with "interaction_count = interaction_count + 2"
update_existing_user_twice(us, id, user_details, t) ==
    IF id \notin DOMAIN us
    THEN [ok |-> TRUE, users |-> us]
    ELSE LET old == us[id]
             Set(f) == IF Truthy(user_details[f]) THEN user_details[f] ELSE old[f]
             row == [name |-> Set("name"),
                     reg_no |-> Set("reg_no"),
                     phone |-> Set("phone"),
                     email |-> Set("email"),
                     first_interaction |-> old.first_interaction,
                     last_interaction |-> t,
                     interaction_count |-> old.interaction_count + 2,
                     is_lead |-> old.is_lead]
         IN  IF UniqueOk(us, row, id)
             THEN [ok |-> TRUE, users |-> [us EXCEPT ![id] = row]]
             ELSE [ok |-> FALSE, users |-> us]

\* the UPDATE that counts and stamps only when it sets a field anew
update_existing_user_if_changed(us, id, user_details, t) ==
    IF id \notin DOMAIN us
    THEN [ok |-> TRUE, users |-> us]
    ELSE LET old == us[id]
             Set(f) == IF Truthy(user_details[f]) THEN user_details[f] ELSE old[f]
             changed == \E f \in MeaningfulFields : Set(f) # old[f]
             row == [name |-> Set("name"),
                     reg_no |-> Set("reg_no"),
                     phone |-> Set("phone"),
                     email |-> Set("email"),
                     first_interaction |-> old.first_interaction,
                     last_interaction |-> IF changed THEN t ELSE old.last_interaction,
                     interaction_count |->
                         IF changed THEN old.interaction_count + 1
                         ELSE old.interaction_count,
                     is_lead |-> old.is_lead]
         IN  IF UniqueOk(us, row, id)
             THEN [ok |-> TRUE, users |-> [us EXCEPT ![id] = row]]
             ELSE [ok |-> FALSE, users |-> us]

update_existing_user(us, id, user_details, t) ==
    IF id \notin DOMAIN us
    THEN [ok |-> TRUE, users |-> us]
    ELSE LET old == us[id]
             Set(f) == IF Truthy(user_details[f]) THEN user_details[f] ELSE old[f]
             row == [name |-> Set("name"),
                     reg_no |-> Set("reg_no"),
                     phone |-> Set("phone"),
                     email |-> Set("email"),
                     first_interaction |-> old.first_interaction,
                     last_interaction |-> t,
                     interaction_count |-> old.interaction_count + 1,
                     is_lead |-> old.is_lead]
         IN  IF UniqueOk(us, row, id)
             THEN [ok |-> TRUE, users |-> [us EXCEPT ![id] = row]]
             ELSE [ok |-> FALSE, users |-> us]

\* the INSERT run twice
log_interaction_twice(ints, id, context, t) ==
    ints \o <<[user_id |-> id, context |-> context, timestamp |-> t],
              [user_id |-> id, context |-> context, timestamp |-> t]>>

log_interaction(ints, id, context, t) ==
    Append(ints, [user_id |-> id, context |-> context, timestamp |-> t])

(* ---------------------------- save_to_csv ------------------------------ *)

DetailKeys == <<"name", "reg_no", "phone", "email", "context">>

\* record.keys(): "timestamp", then the keys the dict still holds.
RecordKeys(user_details) ==
    <<"timestamp">> \o SelectSeq(DetailKeys, LAMBDA f : user_details[f] # None)

NoDetails ==
    [name |-> None, reg_no |-> None, phone |-> None, email |-> None, context |-> None]

HeaderLine(user_details) ==
    [header |-> TRUE, keys |-> RecordKeys(user_details), timestamp |-> -1,
     values |-> NoDetails]

RowLine(user_details, t) ==
    [header |-> FALSE, keys |-> RecordKeys(user_details), timestamp |-> t,
     values |-> user_details]

\* open(file_path, "a"); writeheader() unless the file was seen; writerow()
save_to_csv(log, user_details, t, exists) ==
    IF exists THEN Append(log, RowLine(user_details, t))
    ELSE log \o <<HeaderLine(user_details), RowLine(user_details, t)>>

isfile(log) == log # <<>>

(* ---------------------------- capture: local part ---------------------- *)

\* lines 196-208: the dict built from the properties, None values removed
\* (a removed key is a field holding None).
UserDetails(properties) ==
    [name |-> properties.name,
     reg_no |-> properties.reg_no,
     phone |-> properties.phone,
     email |-> properties.email,
     context |-> IF properties.context = Absent THEN DefaultContext
                 ELSE properties.context]

\* user_details.get('context', '')
ContextOf(user_details) ==
    IF user_details.context = None THEN <<>> ELSE user_details.context

\* the registration number left unchecked
Validations_no_reg(user_details) ==
    (IF Truthy(user_details.phone) /\ ~validate_phone(user_details.phone)
       THEN <<"phone">> ELSE <<>>)
    \o (IF Truthy(user_details.email) /\ ~validate_email(user_details.email)
       THEN <<"email">> ELSE <<>>)

Validations(user_details) ==
    (IF Truthy(user_details.phone) /\ ~validate_phone(user_details.phone)
       THEN <<"phone">> ELSE <<>>)
    \o (IF Truthy(user_details.email) /\ ~validate_email(user_details.email)
       THEN <<"email">> ELSE <<>>)
    \o (IF Truthy(user_details.reg_no) /\ ~validate_reg_no(user_details.reg_no)
       THEN <<"reg_no">> ELSE <<>>)

\* "is not None" in place of truthiness
Meaningful_not_none(user_details) ==
    \E f \in MeaningfulFields : user_details[f] # None

Meaningful(user_details) == \E f \in MeaningfulFields : Truthy(user_details[f])

Result(msg, reasons) == [msg |-> msg, reasons |-> reasons]

(* ---------------------------- inputs ----------------------------------- *)

Asha == <<"A", "s", "h", "a">>

CSE12 == <<"C", "S", "E", "1", "2">>

cse12 == <<"c", "s", "e", "1", "2">>

ECE34 == <<"E", "C", "E", "3", "4">>

Phone1 == <<"9", "8", "7", "6", "5", "4", "3", "2", "1", "0">>

Phone1Spaced == <<"9", "8", "7", "6", "5", " ", "4", "3", "2", "1", "0">>

Phone5 == <<"1", "2", "3", "4", "5">>

Mail1 == <<"a", "@", "x", ".", "c">>

MailNoDot == <<"a", "@", "x">>

Bag(name, reg_no, phone, email, context) ==
    [name |-> name, reg_no |-> reg_no, phone |-> phone, email |-> email,
     context |-> context]

\* The keyword arguments of one call (a missing key and an explicit None are
\* the same for every key but context).
Bags ==
    { Bag(None, None, None, None, Absent),
      Bag(<<>>, <<>>, None, None, None),
      Bag(Asha, None, None, None, Absent),
      Bag(None, CSE12, None, None, Absent),
      Bag(None, None, Phone1, None, Absent),
      Bag(Asha, None, None, Mail1, Absent),
      Bag(Asha, CSE12, Phone1, None, None),
      Bag(None, ECE34, Phone1, None, Absent),
      Bag(None, CSE12, None, Mail1, Absent),
      Bag(None, None, Phone1, Mail1, Absent),
      Bag(None, cse12, Phone1Spaced, None, Absent),
      Bag(None, None, Phone5, None, Absent),
      Bag(Asha, CSE12, Phone5, MailNoDot, Absent),
      Bag(None, <<"C", "1">>, None, Mail1, Absent),
      Bag(Asha, <<>>, None, None, Absent),
      Bag(None, CSE12, <<>>, None, Absent),
      Bag(None, ECE34, <<>>, None, Absent) }

\* The bags of the calls during which something fails.
FaultBags ==
    { Bag(Asha, None, None, Mail1, Absent),
      Bag(Asha, CSE12, Phone1, None, None),
      Bag(None, CSE12, None, Mail1, Absent) }

\* The bags of the calls that overlap in time.
RaceBags ==
    { Bag(Asha, CSE12, Phone1, None, None),
      Bag(None, CSE12, None, None, Absent),
      Bag(None, ECE34, Phone1, None, Absent) }

(* ---------------------------- faults ----------------------------------- *)

\* What raised during a call: the primary-store operation that failed
\* ("none" when none did), and how many save_to_csv attempts failed.
NoFault == [store |-> "none", csv |-> 0]

StorePoints == {"init", "is_new", "create", "find", "update", "log"}

Faults == [store : StorePoints \cup {"none"}, csv : 0..2]

(* ---------------------------- capture, run alone ----------------------- *)

Outcome(us, ints, lk, log, d, id, msg, reasons, f) ==
    [users |-> us, interactions |-> ints, locked |-> lk, csv |-> log, ud |-> d,
     user_id |-> id, result |-> Result(msg, reasons), fault |-> f]

\* the handler that only logs the error
Handler_silent(us, ints, lk, log, t, d, id, store, failed, f) ==
    Outcome(us, ints, lk, log, d, id, "warning", <<>>, [store |-> store, csv |-> failed])

\* a handler that lets the exception through
Handler_reraise(us, ints, lk, log, t, d, id, store, failed, f) ==
    Outcome(us, ints, lk, log, d, id, "raised", <<>>, [store |-> store, csv |-> failed])

\* lines 252-256, entered after `failed` save_to_csv attempts of this call
Handler(us, ints, lk, log, t, d, id, store, failed, f) ==
    IF f.csv > failed
    THEN Outcome(us, ints, lk, log, d, id, "raised", <<>>,
                 [store |-> store, csv |-> failed + 1])
    ELSE Outcome(us, ints, lk, save_to_csv(log, d, t, isfile(log)), d, id, "warning", <<>>,
                 [store |-> store, csv |-> failed])

\* the new-user path raising after the append of line 237
NewUserPath_resaved(us, ints, lk, log, t, d, f) ==
    IF f.store = "create" THEN Handler(us, ints, lk, log, t, d, NoId, "create", 0, f)
    ELSE IF lk THEN Handler(us, ints, lk, log, t, d, NoId, "none", 0, f)
    ELSE LET c == create_new_user(us, d, t)
         IN  IF ~c.ok THEN Handler(us, ints, TRUE, log, t, d, NoId, "none", 0, f)
             ELSE IF f.store = "log"
             THEN Handler(c.users, ints, lk, log, t, d, c.user_id, "log", 0, f)
             ELSE LET logged == log_interaction(ints, c.user_id, ContextOf(d), t)
                  IN  IF f.csv > 0
                      THEN Handler(c.users, logged, lk, log, t, d, c.user_id, "none", 1, f)
                      ELSE Handler(c.users, logged, lk, save_to_csv(log, d, t, isfile(log)),
                                   t, d, c.user_id, "none", 0, f)

\* the new-user path without line 237
NewUserPath_unsaved(us, ints, lk, log, t, d, f) ==
    IF f.store = "create" THEN Handler(us, ints, lk, log, t, d, NoId, "create", 0, f)
    ELSE IF lk THEN Handler(us, ints, lk, log, t, d, NoId, "none", 0, f)
    ELSE LET c == create_new_user(us, d, t)
         IN  IF ~c.ok THEN Handler(us, ints, TRUE, log, t, d, NoId, "none", 0, f)
             ELSE IF f.store = "log"
             THEN Handler(c.users, ints, lk, log, t, d, c.user_id, "log", 0, f)
             ELSE Outcome(c.users, log_interaction(ints, c.user_id, ContextOf(d), t),
                          lk, log, d, c.user_id, "new", <<>>, NoFault)

\* lines 232-240
NewUserPath(us, ints, lk, log, t, d, f) ==
    IF f.store = "create" THEN Handler(us, ints, lk, log, t, d, NoId, "create", 0, f)
    ELSE IF lk THEN Handler(us, ints, lk, log, t, d, NoId, "none", 0, f)
    ELSE LET c == create_new_user(us, d, t)
         IN  IF ~c.ok THEN Handler(us, ints, TRUE, log, t, d, NoId, "none", 0, f)
             ELSE IF f.store = "log"
             THEN Handler(c.users, ints, lk, log, t, d, c.user_id, "log", 0, f)
             ELSE LET logged == log_interaction(ints, c.user_id, ContextOf(d), t)
                  IN  IF f.csv > 0
                      THEN Handler(c.users, logged, lk, log, t, d, c.user_id, "none", 1, f)
                      ELSE Outcome(c.users, logged, lk, save_to_csv(log, d, t, isfile(log)),
                                   d, c.user_id, "new", <<>>, NoFault)

\* the existing-user path that logs the interaction of a refused merge
ExistingUserPath_logged(us, ints, lk, log, t, d, f) ==
    IF f.store = "find" THEN Handler(us, ints, lk, log, t, d, NoId, "find", 0, f)
    ELSE LET id == find_existing_user(us, extract_identifiers(d))
         IN  IF f.store = "update"
             THEN Handler(us, ints, lk, log, t, d, id, "update", 0, f)
             ELSE IF lk THEN Handler(us, ints, lk, log, t, d, id, "none", 0, f)
             ELSE LET u == update_existing_user(us, id, d, t)
                  IN  IF ~u.ok
                      THEN Handler(us, log_interaction(ints, id, ContextOf(d), t), TRUE,
                                   log, t, d, id, "none", 0, f)
                      ELSE IF f.store = "log"
                      THEN Handler(u.users, ints, lk, log, t, d, id, "log", 0, f)
                      ELSE Outcome(u.users, log_interaction(ints, id, ContextOf(d), t),
                                   lk, log, d, id, "existing", <<>>, NoFault)

\* the existing-user path with the merge undone when log_interaction raises
ExistingUserPath_rollback(us, ints, lk, log, t, d, f) ==
    IF f.store = "find" THEN Handler(us, ints, lk, log, t, d, NoId, "find", 0, f)
    ELSE LET id == find_existing_user(us, extract_identifiers(d))
         IN  IF f.store = "update"
             THEN Handler(us, ints, lk, log, t, d, id, "update", 0, f)
             ELSE IF lk THEN Handler(us, ints, lk, log, t, d, id, "none", 0, f)
             ELSE LET u == update_existing_user(us, id, d, t)
                  IN  IF ~u.ok THEN Handler(us, ints, TRUE, log, t, d, id, "none", 0, f)
                      ELSE IF f.store = "log"
                      THEN Handler(us, ints, lk, log, t, d, id, "log", 0, f)
                      ELSE Outcome(u.users, log_interaction(ints, id, ContextOf(d), t),
                                   lk, log, d, id, "existing", <<>>, NoFault)

\* lines 243-250
ExistingUserPath(us, ints, lk, log, t, d, f) ==
    IF f.store = "find" THEN Handler(us, ints, lk, log, t, d, NoId, "find", 0, f)
    ELSE LET id == find_existing_user(us, extract_identifiers(d))
         IN  IF f.store = "update"
             THEN Handler(us, ints, lk, log, t, d, id, "update", 0, f)
             ELSE IF lk THEN Handler(us, ints, lk, log, t, d, id, "none", 0, f)
             ELSE LET u == update_existing_user(us, id, d, t)
                  IN  IF ~u.ok THEN Handler(us, ints, TRUE, log, t, d, id, "none", 0, f)
                      ELSE IF f.store = "log"
                      THEN Handler(u.users, ints, lk, log, t, d, id, "log", 0, f)
                      ELSE Outcome(u.users, log_interaction(ints, id, ContextOf(d), t),
                                   lk, log, d, id, "existing", <<>>, NoFault)

smart_capture_user_details(us, ints, lk, log, t, properties, f) ==
    LET d == UserDetails(properties)
        validations == Validations(d)
    IN  IF validations # <<>>
        THEN Outcome(us, ints, lk, log, d, NoId, "rejected", validations, NoFault)
        ELSE IF ~Meaningful(d)
        THEN Outcome(us, ints, lk, log, d, NoId, "thanks", <<>>, NoFault)
        ELSE IF f.store = "init" \/ (f.store = "is_new" /\ extract_identifiers(d) # <<>>)
        THEN Handler(us, ints, lk, log, t, d, NoId, f.store, 0, f)
        ELSE IF is_new_user(us, d)
        THEN NewUserPath(us, ints, lk, log, t, d, f)
        ELSE ExistingUserPath(us, ints, lk, log, t, d, f)

(* ---------------------------- state ------------------------------------ *)

Idle(p) == pc[p] \in {"idle", "done"}

\* nothing returned by get_user_stats yet
NoStats ==
    [returned |-> "none", total_users |-> -1, total_leads |-> -1,
     total_interactions |-> -1]

\* no validator applied yet
NotChecked == [validator |-> "none", value |-> None, applied |-> FALSE, valid |-> FALSE]

Init ==
    /\ users = <<>>
    /\ interactions = <<>>
    /\ locked = FALSE
    /\ csv = <<>>
    /\ now = 0
    /\ calls = 0
    /\ faulty = 0
    /\ pc = [p \in Procs |-> "idle"]
    /\ ud = [p \in Procs |-> NoDetails]
    /\ pos = [p \in Procs |-> 0]
    /\ user_id = [p \in Procs |-> NoId]
    /\ record = [p \in Procs |-> -1]
    /\ file_exists = [p \in Procs |-> FALSE]
    /\ attempt = [p \in Procs |-> 0]
    /\ result = [p \in Procs |-> Result("none", <<>>)]
    /\ fault = [p \in Procs |-> NoFault]
    /\ stats = NoStats
    /\ checked = NotChecked

\* The clock that CURRENT_TIMESTAMP and datetime.now() read.  It is read with
\* the granularity of calls: it moves between calls, not during one.
Tick ==
    /\ now < MaxTime
    /\ \A p \in Procs : Idle(p)
    /\ now' = now + 1
    /\ UNCHANGED <<users, interactions, locked, csv, calls, faulty,
                   pc, ud, pos, user_id, record, file_exists, attempt, result, fault,
                   stats, checked>>

\* The garbage collector frees the connection a refused write left open:
\* its transaction is rolled back and the write lock released.
CollectGarbage ==
    /\ locked
    /\ locked' = FALSE
    /\ UNCHANGED <<users, interactions, csv, now, calls, faulty,
                   pc, ud, pos, user_id, record, file_exists, attempt, result, fault,
                   stats, checked>>

\* One whole call of smart_capture_user_details while no other call runs;
\* f names what fails during it (only failures that the call runs into).
Capture(properties, f) ==
    /\ \A p \in Procs : Idle(p)
    /\ calls < MaxCalls
    /\ f # NoFault => faulty < MaxFaulty
    /\ calls' = calls + 1
    /\ LET o == smart_capture_user_details(users, interactions, locked, csv, now,
                                           properties, f)
       IN  /\ o.fault = f
           /\ users' = o.users
           /\ interactions' = o.interactions
           /\ locked' = o.locked
           /\ csv' = o.csv
           /\ ud' = [ud EXCEPT ![1] = o.ud]
           /\ user_id' = [user_id EXCEPT ![1] = o.user_id]
           /\ result' = [result EXCEPT ![1] = o.result]
           /\ fault' = [fault EXCEPT ![1] = o.fault]
           /\ faulty' = IF o.fault # NoFault THEN faulty + 1 ELSE faulty
    /\ pc' = [pc EXCEPT ![1] = "done"]
    /\ UNCHANGED <<now, pos, record, file_exists, attempt, stats, checked>>

NextSeq ==
    \/ Tick
    \/ CollectGarbage
    \/ \E properties \in Bags : Capture(properties, NoFault)

SeqSpec == Init /\ [][NextSeq]_vars

NextFault ==
    \/ Tick
    \/ CollectGarbage
    \/ \E properties \in FaultBags : \E f \in Faults : Capture(properties, f)

FaultSpec == Init /\ [][NextFault]_vars

(* ---------------------------- capture, interleaved --------------------- *)

Returned(p, msg) ==
    /\ pc' = [pc EXCEPT ![p] = "done"]
    /\ result' = [result EXCEPT ![p] = Result(msg, <<>>)]
    /\ pos' = [pos EXCEPT ![p] = 0]
    /\ record' = [record EXCEPT ![p] = -1]
    /\ file_exists' = [file_exists EXCEPT ![p] = FALSE]
    /\ attempt' = [attempt EXCEPT ![p] = 0]

\* an exception reaches line 252: the handler calls save_to_csv
Raised(p) ==
    /\ pc' = [pc EXCEPT ![p] = "csv_check"]
    /\ attempt' = [attempt EXCEPT ![p] = 2]
    /\ pos' = [pos EXCEPT ![p] = 0]
    /\ UNCHANGED <<record, file_exists, result>>

\* lines 192-225; callers are interchangeable, so a call that starts while
\* no other call runs is taken to be caller 1's
Call(p, properties) ==
    /\ Idle(p)
    /\ p # 1 => ~Idle(1)
    /\ calls < MaxCalls
    /\ calls' = calls + 1
    /\ LET d == UserDetails(properties)
           validations == Validations(d)
       IN  /\ ud' = [ud EXCEPT ![p] = d]
           /\ IF validations # <<>>
              THEN /\ pc' = [pc EXCEPT ![p] = "done"]
                   /\ result' = [result EXCEPT ![p] = Result("rejected", validations)]
              ELSE IF ~Meaningful(d)
              THEN /\ pc' = [pc EXCEPT ![p] = "done"]
                   /\ result' = [result EXCEPT ![p] = Result("thanks", <<>>)]
              ELSE /\ pc' = [pc EXCEPT ![p] = "init"]
                   /\ result' = [result EXCEPT ![p] = Result("none", <<>>)]
    /\ user_id' = [user_id EXCEPT ![p] = NoId]
    /\ fault' = [fault EXCEPT ![p] = NoFault]
    /\ UNCHANGED <<users, interactions, locked, csv, now, faulty,
                   pos, record, file_exists, attempt, stats, checked>>

\* line 228: UserManager() runs setup_database, CREATE TABLE IF NOT EXISTS
Setup(p) ==
    /\ pc[p] = "init"
    /\ pc' = [pc EXCEPT ![p] = "is_new"]
    /\ pos' = [pos EXCEPT ![p] = 1]
    /\ UNCHANGED <<users, interactions, locked, csv, now, calls, faulty,
                   ud, user_id, record, file_exists, attempt, result, fault,
                   stats, checked>>

\* line 231: one SELECT of the loop of find_existing_user, called by is_new_user
IsNewUserStep(p) ==
    /\ pc[p] = "is_new"
    /\ LET identifiers == extract_identifiers(ud[p])
           hit == SelectId(users, identifiers[pos[p]][1], identifiers[pos[p]][2])
       IN  IF identifiers = <<>>
           THEN /\ pc' = [pc EXCEPT ![p] = "create"]
                /\ pos' = [pos EXCEPT ![p] = 0]
           ELSE IF hit # NoId
           THEN /\ pc' = [pc EXCEPT ![p] = "find"]
                /\ pos' = [pos EXCEPT ![p] = 1]
           ELSE IF pos[p] = Len(identifiers)
           THEN /\ pc' = [pc EXCEPT ![p] = "create"]
                /\ pos' = [pos EXCEPT ![p] = 0]
           ELSE /\ pc' = pc
                /\ pos' = [pos EXCEPT ![p] = pos[p] + 1]
    /\ UNCHANGED <<users, interactions, locked, csv, now, calls, faulty,
                   ud, user_id, record, file_exists, attempt, result, fault,
                   stats, checked>>

\* line 233
CreateNewUser(p) ==
    /\ pc[p] = "create"
    /\ LET c == create_new_user(users, ud[p], now)
       IN  IF locked
           THEN /\ Raised(p)
                /\ UNCHANGED <<users, locked, user_id>>
           ELSE IF c.ok
           THEN /\ users' = c.users
                /\ user_id' = [user_id EXCEPT ![p] = c.user_id]
                /\ pc' = [pc EXCEPT ![p] = "log_new"]
                /\ UNCHANGED <<locked, pos, record, file_exists, attempt, result>>
           ELSE /\ Raised(p)
                /\ locked' = TRUE
                /\ UNCHANGED <<users, user_id>>
    /\ UNCHANGED <<interactions, csv, now, calls, faulty, ud, fault,
                   stats, checked>>

\* lines 244-245: one SELECT of the loop of the second find_existing_user
FindExistingUserStep(p) ==
    /\ pc[p] = "find"
    /\ LET identifiers == extract_identifiers(ud[p])
           hit == SelectId(users, identifiers[pos[p]][1], identifiers[pos[p]][2])
       IN  IF hit # NoId \/ pos[p] = Len(identifiers)
           THEN /\ user_id' = [user_id EXCEPT ![p] = hit]
                /\ pc' = [pc EXCEPT ![p] = "update"]
                /\ pos' = [pos EXCEPT ![p] = 0]
           ELSE /\ pos' = [pos EXCEPT ![p] = pos[p] + 1]
                /\ UNCHANGED <<user_id, pc>>
    /\ UNCHANGED <<users, interactions, locked, csv, now, calls, faulty,
                   ud, record, file_exists, attempt, result, fault,
                   stats, checked>>

\* line 246
UpdateExistingUser(p) ==
    /\ pc[p] = "update"
    /\ LET u == update_existing_user(users, user_id[p], ud[p], now)
       IN  IF locked
           THEN /\ Raised(p)
                /\ UNCHANGED <<users, locked>>
           ELSE IF u.ok
           THEN /\ users' = u.users
                /\ pc' = [pc EXCEPT ![p] = "log_old"]
                /\ UNCHANGED <<locked, pos, record, file_exists, attempt, result>>
           ELSE /\ Raised(p)
                /\ locked' = TRUE
                /\ UNCHANGED users
    /\ UNCHANGED <<interactions, csv, now, calls, faulty, ud, user_id, fault,
                   stats, checked>>

\* lines 234 and 247; line 250 returns after the latter
LogInteraction(p) ==
    /\ pc[p] \in {"log_new", "log_old"}
    /\ IF locked
       THEN /\ Raised(p)
            /\ UNCHANGED interactions
       ELSE /\ interactions' =
                  log_interaction(interactions, user_id[p], ContextOf(ud[p]), now)
            /\ IF pc[p] = "log_new"
               THEN /\ pc' = [pc EXCEPT ![p] = "csv_check"]
                    /\ attempt' = [attempt EXCEPT ![p] = 1]
                    /\ UNCHANGED <<pos, record, file_exists, result>>
               ELSE Returned(p, "existing")
    /\ UNCHANGED <<users, locked, csv, now, calls, faulty, ud, user_id, fault,
                   stats, checked>>

\* save_to_csv, lines 263-272: the record is stamped, the file looked for
SaveToCsvCheck(p) ==
    /\ pc[p] = "csv_check"
    /\ record' = [record EXCEPT ![p] = now]
    /\ file_exists' = [file_exists EXCEPT ![p] = isfile(csv)]
    /\ pc' = [pc EXCEPT ![p] = "csv_write"]
    /\ UNCHANGED <<users, interactions, locked, csv, now, calls, faulty,
                   ud, pos, user_id, attempt, result, fault,
                   stats, checked>>

\* save_to_csv, lines 273-277, then the return of line 240 or 256
SaveToCsvWrite(p) ==
    /\ pc[p] = "csv_write"
    /\ csv' = save_to_csv(csv, ud[p], record[p], file_exists[p])
    /\ Returned(p, IF attempt[p] = 1 THEN "new" ELSE "warning")
    /\ UNCHANGED <<users, interactions, locked, now, calls, faulty, ud, user_id, fault,
                   stats, checked>>

Next ==
    \/ Tick
    \/ CollectGarbage
    \/ \E p \in Procs : \E properties \in RaceBags : Call(p, properties)
    \/ \E p \in Procs : Setup(p)
    \/ \E p \in Procs : IsNewUserStep(p)
    \/ \E p \in Procs : CreateNewUser(p)
    \/ \E p \in Procs : FindExistingUserStep(p)
    \/ \E p \in Procs : UpdateExistingUser(p)
    \/ \E p \in Procs : LogInteraction(p)
    \/ \E p \in Procs : SaveToCsvCheck(p)
    \/ \E p \in Procs : SaveToCsvWrite(p)

Spec == Init /\ [][Next]_vars

(* ---------------------------- get_user_stats --------------------------- *)

\* what line 310 returns: {'error': str(e)}
StatsError ==
    [returned |-> "error", total_users |-> -1, total_leads |-> -1,
     total_interactions |-> -1]

\* SELECT COUNT(*) FROM users WHERE is_lead = 1
CountLeads(us) == Cardinality({i \in DOMAIN us : us[i].is_lead})

\* a call of get_user_stats is between two of its SELECTs
Reading == stats.returned \in {"leads", "users"}

\* what every step of get_user_stats leaves alone; a step that raises counts
\* as a failure of the run
StatsFrame(fails) ==
    /\ fails => faulty < MaxFaulty
    /\ faulty' = IF fails THEN faulty + 1 ELSE faulty
    /\ UNCHANGED <<users, interactions, locked, csv, now, calls,
                   pc, ud, pos, user_id, record, file_exists, attempt, result, fault,
                   checked>>

\* lines 290-295: UserManager() finds both tables (CREATE TABLE IF NOT
\* EXISTS), then the first SELECT.  The write lock of an abandoned connection
\* does not block a SELECT.
SelectLeads(fails) ==
    /\ ~Reading
    /\ stats' = IF fails THEN StatsError
                ELSE [returned |-> "leads", total_users |-> -1,
                      total_leads |-> CountLeads(users), total_interactions |-> -1]
    /\ StatsFrame(fails)

\* the second SELECT taken from the answer of the first
SelectUsers_cached(fails) ==
    /\ stats.returned = "leads"
    /\ stats' = IF fails THEN StatsError
                ELSE [stats EXCEPT !.returned = "users",
                                   !.total_users = stats.total_leads]
    /\ StatsFrame(fails)

\* lines 297-298
SelectUsers(fails) ==
    /\ stats.returned = "leads"
    /\ stats' = IF fails THEN StatsError
                ELSE [stats EXCEPT !.returned = "users", !.total_users = Len(users)]
    /\ StatsFrame(fails)

\* lines 300-309: the third SELECT and the return
SelectInteractions(fails) ==
    /\ stats.returned = "users"
    /\ stats' = IF fails THEN StatsError
                ELSE [stats EXCEPT !.returned = "counts",
                                   !.total_interactions = Len(interactions)]
    /\ StatsFrame(fails)

\* one capturing caller, statement by statement, and one caller of
\* get_user_stats, SELECT by SELECT
NextRead ==
    \/ CollectGarbage
    \/ \E properties \in RaceBags : Call(1, properties)
    \/ Setup(1)
    \/ IsNewUserStep(1)
    \/ CreateNewUser(1)
    \/ FindExistingUserStep(1)
    \/ UpdateExistingUser(1)
    \/ LogInteraction(1)
    \/ SaveToCsvCheck(1)
    \/ SaveToCsvWrite(1)
    \/ \E fails \in BOOLEAN : SelectLeads(fails)
    \/ \E fails \in BOOLEAN : SelectUsers(fails)
    \/ \E fails \in BOOLEAN : SelectInteractions(fails)

ReadSpec == Init /\ [][NextRead]_vars

(* ---------------------------- validators, run alone -------------------- *)

\* the str values of at most n characters of A
Strings(A, n) == UNION {[1..k -> A] : k \in 0..n}

PhoneInputs ==
    {None} \cup {p \o b : p \in Strings({"5", "6", "-"}, 2),
                          b \in Strings({"0", "-"}, MaxPhoneTail)}

EmailInputs ==
    {None} \cup {s \o e : s \in Strings({"a", "_", "%", "@", "."}, MaxEmailLen),
                          e \in {<<>>, <<"\n">>, <<"\n", "a">>}}

RegNoInputs ==
    {None} \cup {p \o [i \in 1..k |-> "A"] \o e :
                   p \in Strings({"a", "1", "-"}, 2),
                   k \in 0..MaxRegPad,
                   e \in {<<>>, <<"\n">>, <<"-">>, <<"\n", "\n">>}}

\* a value handed to one validator, which has not run yet
ToCheck(validator, value) ==
    [validator |-> validator, value |-> value, applied |-> FALSE, valid |-> FALSE]

ValInit ==
    /\ users = <<>>
    /\ interactions = <<>>
    /\ locked = FALSE
    /\ csv = <<>>
    /\ now = 0
    /\ calls = 0
    /\ faulty = 0
    /\ pc = [p \in Procs |-> "idle"]
    /\ ud = [p \in Procs |-> NoDetails]
    /\ pos = [p \in Procs |-> 0]
    /\ user_id = [p \in Procs |-> NoId]
    /\ record = [p \in Procs |-> -1]
    /\ file_exists = [p \in Procs |-> FALSE]
    /\ attempt = [p \in Procs |-> 0]
    /\ result = [p \in Procs |-> Result("none", <<>>)]
    /\ fault = [p \in Procs |-> NoFault]
    /\ stats = NoStats
    /\ checked \in {ToCheck("validate_phone", v) : v \in PhoneInputs}
                 \cup {ToCheck("validate_email", v) : v \in EmailInputs}
                 \cup {ToCheck("validate_reg_no", v) : v \in RegNoInputs}

\* what a validator leaves alone: everything but its answer
Answered(valid) ==
    /\ ~checked.applied
    /\ checked' = [checked EXCEPT !.applied = TRUE, !.valid = valid]
    /\ UNCHANGED <<users, interactions, locked, csv, now, calls, faulty,
                   pc, ud, pos, user_id, record, file_exists, attempt, result, fault,
                   stats>>

ValidatePhone ==
    /\ checked.validator = "validate_phone"
    /\ Answered(validate_phone(checked.value))

ValidateEmail ==
    /\ checked.validator = "validate_email"
    /\ Answered(validate_email(checked.value))

ValidateRegNo ==
    /\ checked.validator = "validate_reg_no"
    /\ Answered(validate_reg_no(checked.value))

NextVal ==
    \/ ValidatePhone
    \/ ValidateEmail
    \/ ValidateRegNo

ValSpec == ValInit /\ [][NextVal]_vars

(* ======================================================================= *)
(* Properties                                                              *)
(* ======================================================================= *)

\* a step that is one whole call (SeqSpec, FaultSpec)
CaptureStep == calls' = calls + 1

RowsOf(ints, id) == Cardinality({j \in DOMAIN ints : ints[j].user_id = id})

NoIdentifier(d) == \A n \in 1..3 : ~Truthy(d[IdentifierFields[n]])

\* C1: in every reachable state, under any interleaving of calls, no two
\* identities hold the same non-null reg_no, the same non-null phone or the
\* same non-null email.
C1_UniqueIdentifiers ==
    \A i \in DOMAIN users : \A j \in DOMAIN users \ {i} : \A n \in 1..3 :
        LET f == IdentifierFields[n]
        IN  users[i][f] # None => users[i][f] # users[j][f]

\* two identities exist and a merge that would give one the other's
\* identifier is about to be refused
C1_Witness ==
    /\ Len(users) >= 2
    /\ \E p \in Procs :
          /\ pc[p] = "update"
          /\ user_id[p] \in DOMAIN users
          /\ ~update_existing_user(users, user_id[p], ud[p], now).ok

\* C2 as claimed: a capture with a valid reg_no that no identity holds
\* returns the new-user result and creates one identity; a capture with a
\* reg_no that an identity holds returns the existing-user result and sets
\* last_interaction of that identity, whatever its other valid fields are.
C2_Original ==
    [][(CaptureStep /\ Truthy(ud'[1].reg_no) /\ Validations(ud'[1]) = <<>>) =>
         LET d == ud'[1]
             holder == SelectId(users, "reg_no", d.reg_no)
         IN  IF holder = NoId
             THEN /\ result'[1].msg = "new"
                  /\ Len(users') = Len(users) + 1
             ELSE /\ result'[1].msg = "existing"
                  /\ Len(users') = Len(users)
                  /\ users'[holder].last_interaction = now]_vars

\* C2 amended: the same, provided that no identity holds a phone or email
\* value the bag supplies (first capture), respectively that no other
\* identity holds a phone or email the bag supplies (later captures), and
\* that no connection abandoned by a refused write still locks the database.
C2_NewThenExisting ==
    [][(CaptureStep /\ ~locked /\ Truthy(ud'[1].reg_no) /\ Validations(ud'[1]) = <<>>) =>
         LET d == ud'[1]
             holder == SelectId(users, "reg_no", d.reg_no)
             Free(f) == d[f] = None \/ \A i \in DOMAIN users : users[i][f] # d[f]
             Own(f) == ~Truthy(d[f])
                       \/ \A i \in DOMAIN users \ {holder} : users[i][f] # d[f]
         IN  IF holder = NoId
             THEN (Free("phone") /\ Free("email")) =>
                     /\ result'[1].msg = "new"
                     /\ Len(users') = Len(users) + 1
                     /\ users'[Len(users')].reg_no = d.reg_no
             ELSE (Own("phone") /\ Own("email")) =>
                     /\ result'[1].msg = "existing"
                     /\ Len(users') = Len(users)
                     /\ users'[holder].reg_no = d.reg_no
                     /\ users'[holder].last_interaction = now]_vars

\* a later capture by reg_no, carrying a phone the identity did not have,
\* was answered as an existing user and moved last_interaction
C2_Witness ==
    /\ result[1].msg = "existing"
    /\ Truthy(ud[1].reg_no)
    /\ Truthy(ud[1].phone)
    /\ user_id[1] \in DOMAIN users
    /\ users[user_id[1]].reg_no = ud[1].reg_no
    /\ users[user_id[1]].first_interaction = 0
    /\ users[user_id[1]].last_interaction = 1

\* C3: when two overlapping calls carry the same unseen identifier, the
\* final state has exactly one identity with interaction_count 2 and two
\* interaction rows, and neither call surfaces the constraint violation.
C3_RaceLoserMerges ==
    \A p \in Procs : \A q \in Procs \ {p} :
        (/\ calls = 2
         /\ pc[p] = "done"
         /\ pc[q] = "done"
         /\ ud[p] = ud[q]
         /\ ~NoIdentifier(ud[p])) =>
            /\ Len(users) = 1
            /\ users[1].interaction_count = 2
            /\ Len(interactions) = 2
            /\ {result[p].msg, result[q].msg} = {"new", "existing"}

\* C4: a capture whose bag supplies a name and none of reg_no, phone, email
\* adds no row to the identity table.
C4_NoIdentifierNoIdentity ==
    [][(/\ CaptureStep
        /\ Truthy(ud'[1].name)
        /\ \A n \in 1..3 : ud'[1][IdentifierFields[n]] = None) =>
            Len(users') = Len(users)]_vars

Malformed(d) ==
    {f \in {"phone", "email", "reg_no"} :
        /\ Truthy(d[f])
        /\ ~(CASE f = "phone" -> validate_phone(d[f])
               [] f = "email" -> validate_email(d[f])
               [] f = "reg_no" -> validate_reg_no(d[f]))}

\* C5: a call with a malformed phone, email or reg_no returns the rejection
\* with exactly one reason per malformed field and changes neither table nor
\* the fallback log, whatever the other fields are.
C5_ValidationRejection ==
    [][(CaptureStep /\ Malformed(ud'[1]) # {}) =>
         /\ result'[1].msg = "rejected"
         /\ Len(result'[1].reasons) = Cardinality(Malformed(ud'[1]))
         /\ {result'[1].reasons[n] : n \in 1..Len(result'[1].reasons)} = Malformed(ud'[1])
         /\ UNCHANGED <<users, interactions, csv>>]_vars

\* a bag with a well-formed reg_no and two malformed fields was rejected with
\* two reasons while identities exist
C5_Witness ==
    /\ result[1].msg = "rejected"
    /\ Len(result[1].reasons) = 2
    /\ Truthy(ud[1].reg_no)
    /\ validate_reg_no(ud[1].reg_no)
    /\ users # <<>>

\* C6: a call whose name, reg_no, phone and email are all absent or empty
\* returns the acknowledgment and changes neither table nor the fallback log.
C6_EmptyBagAcknowledged ==
    [][(CaptureStep /\ \A f \in MeaningfulFields : ~Truthy(ud'[1][f])) =>
         /\ result'[1] = Result("thanks", <<>>)
         /\ UNCHANGED <<users, interactions, csv>>]_vars

\* a bag of empty strings was acknowledged
C6_Witness ==
    /\ result[1].msg = "thanks"
    /\ ud[1].name = <<>>
    /\ ud[1].reg_no = <<>>

C8_InteractionCounting ==
    [][(CaptureStep /\ result'[1].msg \in {"new", "existing"}) =>
         LET id == user_id'[1]
         IN  /\ id \in DOMAIN users'
             /\ users'[id].interaction_count =
                   IF id \in DOMAIN users THEN users[id].interaction_count + 1 ELSE 1
             /\ RowsOf(interactions', id) = users'[id].interaction_count
             /\ result'[1].msg = "new" <=> id \notin DOMAIN users]_vars

\* three captures for one identity: count 3 and three rows
C8_Witness ==
    \E id \in DOMAIN users :
        /\ users[id].interaction_count = 3
        /\ RowsOf(interactions, id) = 3

\* C9: a capture that repeats the bag of the capture before it, which
\* created or matched an identity by an identifier, returns the existing-user
\* result, creates no identity and leaves name, reg_no, phone and email of
\* every identity as they were.
C9_MergeIdempotent ==
    [][(/\ CaptureStep
        /\ result[1].msg \in {"new", "existing"}
        /\ ~NoIdentifier(ud[1])
        /\ ud'[1] = ud[1]) =>
         /\ result'[1].msg = "existing"
         /\ user_id'[1] = user_id[1]
         /\ DOMAIN users' = DOMAIN users
         /\ \A i \in DOMAIN users : \A f \in MeaningfulFields :
               users'[i][f] = users[i][f]
         /\ users'[user_id[1]].interaction_count
               = users[user_id[1]].interaction_count + 1]_vars

\* the same bag was captured three times for one identity, the last two
\* answered as an existing user
C9_Witness ==
    /\ result[1].msg = "existing"
    /\ user_id[1] \in DOMAIN users
    /\ users[user_id[1]].interaction_count = 3
    /\ users[user_id[1]].name = ud[1].name
    /\ users[user_id[1]].reg_no = ud[1].reg_no
    /\ users[user_id[1]].phone = ud[1].phone
    /\ Truthy(ud[1].name)
    /\ Truthy(ud[1].phone)

\* C10: a call that returned the new-user or the existing-user result has
\* created or updated an identity: the identity it worked on is in the table.
C10_SuccessReflected ==
    \A p \in Procs :
        (pc[p] = "done" /\ result[p].msg \in {"new", "existing"}) =>
            user_id[p] \in DOMAIN users


\* C11: every call that passes validation and goes through resolve, create
\* or merge, and log interaction appends its bag to the fallback log, on the
\* new-user path, the existing-user path and the storage-error path alike.
C11_Original ==
    [][CaptureStep /\ result'[1].msg \in {"new", "existing", "warning"}
         => csv' = save_to_csv(csv, ud'[1], now, isfile(csv))]_vars

\* C11 (amended): a call appends its bag to the fallback log exactly when it
\* takes the new-user path or the storage-error path and the append does not
\* fail; a call that merges into an existing identity leaves the log as it
\* was, and so does a rejected or an empty call.
C11_AppendUnlessExisting ==
    [][CaptureStep
         => IF result'[1].msg \in {"new", "warning"}
            THEN csv' = save_to_csv(csv, ud'[1], now, isfile(csv))
            ELSE csv' = csv]_vars

\* a merge has succeeded and the log holds only the creating call's line
C11_Witness ==
    /\ result[1].msg = "existing"
    /\ Len(users) = 1
    /\ users[1].interaction_count = 2
    /\ Len(csv) = 2


\* C12: no exception leaves smart_capture_user_details unless the append to
\* the fallback log itself failed: a call ends with one of the returned
\* results, a failure of the primary store alone ends with the
\* recorded-with-warning result, and a call ends by raising only when a
\* save_to_csv of that call failed.
C12_OnlyAppendFailureEscapes ==
    [][CaptureStep
         => /\ result'[1].msg \in {"rejected", "thanks", "new", "existing",
                                   "warning", "raised"}
            /\ result'[1].msg = "raised" => fault'[1].csv >= 1
            /\ fault'[1].csv = 0 /\ (fault'[1].store # "none" \/ locked \/ locked')
                 => result'[1].msg \in {"warning", "rejected", "thanks"}]_vars

\* the UPDATE failed, the handler's append failed too, and the call raised
C12_Witness ==
    /\ result[1].msg = "raised"
    /\ fault[1].store = "update"
    /\ fault[1].csv = 1
    /\ Len(users) = 1

\* C13: get_user_stats changes no identity row and no interaction row, and
\* what it returns is either an error value or three counts, each the exact
\* count of its table when the call reads it: total_users the number of
\* identity rows, total_leads the number of those with is_lead set,
\* total_interactions the number of interaction rows.
C13_StatsExactReadOnly ==
    [][stats' # stats
         => /\ users' = users
            /\ interactions' = interactions
            /\ csv' = csv
            /\ stats'.returned \in {"leads", "users", "counts", "error"}
            /\ stats'.returned = "leads"
                 => stats'.total_leads = CountLeads(users)
            /\ stats'.returned = "users"
                 => /\ stats'.total_users = Len(users)
                    /\ stats'.total_leads = stats.total_leads
            /\ stats'.returned = "counts"
                 => /\ stats'.total_interactions = Len(interactions)
                    /\ stats'.total_users = stats.total_users
                    /\ stats'.total_leads = stats.total_leads]_vars

\* counts returned for a store in which one identity was merged into
C13_Witness ==
    /\ stats.returned = "counts"
    /\ stats.total_users = 2
    /\ stats.total_leads = 2
    /\ stats.total_interactions = 3
    /\ Len(users) = 2
    /\ Len(interactions) = 3

\* positions of the digits of a value
DigitsAt(v) == {i \in 1..Len(v) : v[i] \in Digits}

\* the least element of a non-empty set of positions
First(S) == CHOOSE i \in S : \A j \in S : i <= j

\* C14: validate_phone accepts an absent or empty value; it accepts any
\* other value exactly when the value holds 10 digits and the first of them
\* is 6, 7, 8 or 9, whatever non-digit characters stand around them.
C14_PhoneAccepted ==
    checked.validator = "validate_phone" /\ checked.applied
        => LET v == checked.value
           IN  checked.valid
                 = IF v = None \/ v = <<>> THEN TRUE
                   ELSE /\ Cardinality(DigitsAt(v)) = 10
                        /\ v[First(DigitsAt(v))] \in {"6", "7", "8", "9"}

\* a value of ten digits and two separators has been accepted
C14_Witness ==
    /\ checked.validator = "validate_phone"
    /\ checked.applied
    /\ checked.valid
    /\ Len(checked.value) = 12
    /\ checked.value[1] = "-"
    /\ checked.value[2] = "6"

\* positions of a character in a value
At(v, c) == {i \in 1..Len(v) : v[i] = c}

\* local-part@domain as the specification words it: a non-empty local part
\* over alphanumerics and . _ % + -, and a domain with a dot in it
LocalAtDomain(v) ==
    \E i \in At(v, "@") :
       /\ i > 1
       /\ \A k \in 1..(i - 1) : v[k] \in Alnum \cup {".", "_", "%", "+", "-"}
       /\ \E j \in At(v, ".") : j > i

\* C15: validate_email accepts a present value exactly when it is
\* local-part@domain with a dot in the domain and a non-empty local part
\* over alphanumerics and . _ % + - (so that a local part with "%" in it is
\* accepted).
C15_Original ==
    checked.validator = "validate_email" /\ checked.applied /\ Truthy(checked.value)
        => checked.valid = LocalAtDomain(checked.value)

\* one "@", not in first place; after it a non-empty run of alphanumerics
\* and "-", then the first dot, then a non-empty run of alphanumerics, "-"
\* and "."; before it alphanumerics and . _ + - only
LocalAtLabelDotTail(v) ==
    /\ Cardinality(At(v, "@")) = 1
    /\ LET i == First(At(v, "@"))
           dots == {j \in At(v, ".") : j > i}
       IN  /\ i > 1
           /\ \A k \in 1..(i - 1) : v[k] \in Alnum \cup {".", "_", "+", "-"}
           /\ dots # {}
           /\ First(dots) > i + 1
           /\ First(dots) < Len(v)
           /\ \A k \in (i + 1)..Len(v) : v[k] \in Alnum \cup {"-", "."}

\* C15 (amended): validate_email accepts an absent or empty value; it accepts
\* any other value exactly when the value, or the value without one closing
\* newline, is local@label.tail: a non-empty local part over alphanumerics
\* and . _ + - (no "%"), a non-empty label over alphanumerics and "-", a dot,
\* and a non-empty tail over alphanumerics, "-" and ".".
C15_EmailAccepted ==
    checked.validator = "validate_email" /\ checked.applied
        => LET v == checked.value
           IN  checked.valid
                 = IF v = None \/ v = <<>> THEN TRUE
                   ELSE \/ LocalAtLabelDotTail(v)
                        \/ /\ v[Len(v)] = "\n"
                           /\ LocalAtLabelDotTail(SubSeq(v, 1, Len(v) - 1))

\* a value with "%" before the "@" and a well-formed domain has been refused
C15_Witness ==
    /\ checked.validator = "validate_email"
    /\ checked.applied
    /\ ~checked.valid
    /\ checked.value = <<"%", "@", "a", ".", "a">>

\* C16: validate_reg_no accepts an absent or empty value; it accepts any
\* other value exactly when the value is 5 to 15 characters long and every
\* character of it is a letter, of either case, or a digit.
C16_RegNoAccepted ==
    checked.validator = "validate_reg_no" /\ checked.applied
        => LET v == checked.value
           IN  checked.valid
                 = IF v = None \/ v = <<>> THEN TRUE
                   ELSE /\ Len(v) >= 5
                        /\ Len(v) <= 15
                        /\ \A k \in 1..Len(v) : v[k] \in Alnum

\* C17: in every reachable state every identity has is_lead set, and the
\* counts get_user_stats returns have total_leads equal to total_users.
C17_Original ==
    /\ \A i \in DOMAIN users : users[i].is_lead
    /\ stats.returned = "counts" => stats.total_leads = stats.total_users

\* C17 (amended): in every reachable state every identity has is_lead set.
\* get_user_stats counts the leads before it counts the identities, in two
\* statements: its total_leads is never more than its total_users, and the
\* two are equal whenever no identity was created between the two counts.
C17_LeadsAtMostUsers ==
    [][/\ \A i \in DOMAIN users' : users'[i].is_lead
       /\ stats'.returned \in {"users", "counts"}
            => stats'.total_leads <= stats'.total_users
       /\ stats.returned = "leads" /\ stats'.returned = "users"
             /\ stats.total_leads = Len(users)
            => stats'.total_leads = stats'.total_users]_vars

\* counts returned by a call during which a capture created an identity
C17_Witness ==
    /\ stats.returned = "counts"
    /\ stats.total_leads = 1
    /\ stats.total_users = 2
    /\ \A i \in DOMAIN users : users[i].is_lead
    /\ Len(users) = 2

\* the identities whose field f holds the value the bag supplies for f
Holders(us, d, f) == {i \in DOMAIN us : Truthy(d[f]) /\ us[i][f] = d[f]}

\* the identity of the earliest of reg_no, phone, email that some identity
\* matches, NoId when none does
EarliestMatch(us, d) ==
    IF Holders(us, d, "reg_no") # {} THEN First(Holders(us, d, "reg_no"))
    ELSE IF Holders(us, d, "phone") # {} THEN First(Holders(us, d, "phone"))
    ELSE IF Holders(us, d, "email") # {} THEN First(Holders(us, d, "email"))
    ELSE NoId

\* C18: find_existing_user tries reg_no, then phone, then email, and returns
\* the identity matched by the first of them that matches: a call that goes on
\* to merge works on that identity, also when a later identifier of the bag
\* matches another identity, and a call is taken for a new user (None
\* returned) only when no identifier the bag supplies matches any identity.
C18_EarliestIdentifierWins ==
    [][CaptureStep /\ result'[1].msg \in {"new", "existing", "warning"}
         => IF result'[1].msg = "new"
            THEN EarliestMatch(users, ud'[1]) = NoId
            ELSE user_id'[1] = EarliestMatch(users, ud'[1])]_vars

\* the bag's phone matched one identity and its email another: the call
\* worked on the identity matched by the phone
C18_Witness ==
    /\ result[1].msg = "warning"
    /\ user_id[1] # NoId
    /\ ud[1].reg_no = None
    /\ Truthy(ud[1].phone)
    /\ users[user_id[1]].phone = ud[1].phone
    /\ \E j \in DOMAIN users : j # user_id[1] /\ users[j].email = ud[1].email

\* C19: a merge that the store accepts overwrites each of name, reg_no,
\* phone, email that the bag holds with a non-empty value by that value,
\* leaves the other ones of the four as they were, and changes no other
\* identity's row; no row is added or removed.
C19_LastWriteWins ==
    [][CaptureStep /\ result'[1].msg = "existing"
         => LET id == user_id'[1]
                d == ud'[1]
            IN  /\ id \in DOMAIN users
                /\ DOMAIN users' = DOMAIN users
                /\ \A f \in MeaningfulFields :
                      users'[id][f] = IF d[f] # None /\ d[f] # <<>> THEN d[f]
                                      ELSE users[id][f]
                /\ \A j \in DOMAIN users : j # id => users'[j] = users[j]]_vars

\* a merge has replaced the reg_no of an identity and kept its name, which
\* the bag did not hold, beside a second identity
C19_Witness ==
    /\ result[1].msg = "existing"
    /\ Len(users) = 2
    /\ ud[1].name = None
    /\ ud[1].reg_no = ECE34
    /\ users[user_id[1]].reg_no = ECE34
    /\ users[user_id[1]].name = Asha

\* C20: every merge that the store accepts adds exactly 1 to the
\* interaction_count of the identity it works on and sets its last_seen to
\* the time of the call, also when no field of the identity differs from
\* what the bag holds.
C20_MergeCountsAndStamps ==
    [][CaptureStep /\ result'[1].msg = "existing"
         => LET id == user_id'[1]
            IN  /\ id \in DOMAIN users
                /\ users'[id].interaction_count = users[id].interaction_count + 1
                /\ users'[id].last_interaction = now
                /\ users'[id].first_interaction = users[id].first_interaction]_vars

\* a bag equal to what the identity already holds has been merged, later
\* than the identity was created
C20_Witness ==
    /\ result[1].msg = "existing"
    /\ Len(users) = 1
    /\ \A f \in MeaningfulFields : users[1][f] = ud[1][f]
    /\ users[1].interaction_count = 2
    /\ users[1].first_interaction = 0
    /\ users[1].last_interaction = 1

\* C21: a call that creates an identity gives it an id that no identity had
\* before, leaves every other identity as it was, stores the bag's name,
\* reg_no, phone and email as they are (None for a field the bag lacks), and
\* starts it with interaction_count 1, is_lead set and first_seen equal to
\* last_seen, the time of the call.
C21_CreateInitialises ==
    [][CaptureStep /\ result'[1].msg = "new"
         => LET id == user_id'[1]
            IN  /\ id \notin DOMAIN users
                /\ DOMAIN users' = DOMAIN users \cup {id}
                /\ \A j \in DOMAIN users : users'[j] = users[j]
                /\ \A f \in MeaningfulFields : users'[id][f] = ud'[1][f]
                /\ users'[id].interaction_count = 1
                /\ users'[id].is_lead
                /\ users'[id].first_interaction = users'[id].last_interaction
                /\ users'[id].first_interaction = now]_vars

\* a third identity has been created, later than the first, from a bag that
\* holds no name
C21_Witness ==
    /\ result[1].msg = "new"
    /\ user_id[1] = 3
    /\ Len(users) = 3
    /\ ud[1].name = None
    /\ users[3].name = None
    /\ users[3].first_interaction = 1
    /\ users[1].first_interaction = 0

\* what create_new_user or update_existing_user does to the table in a call
\* with the details d at time t, when the store accepts it
Mutated(us, d, t) ==
    IF is_new_user(us, d) THEN create_new_user(us, d, t).users
    ELSE update_existing_user(us, find_existing_user(us, extract_identifiers(d)), d, t).users

\* C22: a call in which log_interaction fails keeps the identity it has
\* created or merged, and ends by returning a result.
C22_Original ==
    [][CaptureStep /\ fault'[1].store = "log"
         => /\ users' = Mutated(users, ud'[1], now)
            /\ users' # users
            /\ result'[1].msg \in {"new", "existing", "warning"}]_vars

\* C22 (amended): a call in which log_interaction fails keeps the identity it
\* has created or merged and adds no interaction row; it returns the
\* recorded-with-warning result with its bag appended to the fallback log
\* when the append of the handler succeeds, and raises when that append
\* fails.
C22_LogFailureKeepsIdentity ==
    [][CaptureStep /\ fault'[1].store = "log"
         => /\ users' = Mutated(users, ud'[1], now)
            /\ users' # users
            /\ interactions' = interactions
            /\ IF fault'[1].csv = 0
               THEN /\ result'[1].msg = "warning"
                    /\ csv' = save_to_csv(csv, ud'[1], now, isfile(csv))
               ELSE /\ result'[1].msg = "raised"
                    /\ csv' = csv]_vars

\* log_interaction failed after a merge: the merge is kept, no row was
\* added for it, and the call returned
C22_Witness ==
    /\ fault[1] = [store |-> "log", csv |-> 0]
    /\ result[1].msg = "warning"
    /\ Len(users) = 1
    /\ users[1].interaction_count = 2
    /\ Len(interactions) = 1

\* C23: no step of any interleaving of calls removes an identity or changes
\* the first_seen of one: the ids only grow in number, and an identity keeps
\* the id (its place in the table) and the first_seen it was created with.
C23_IdentitiesKept ==
    [][/\ DOMAIN users \subseteq DOMAIN users'
       /\ \A i \in DOMAIN users :
             users'[i].first_interaction = users[i].first_interaction]_vars

\* an identity created at time 0 has been merged into at time 1, beside a
\* second identity
C23_Witness ==
    /\ Len(users) = 2
    /\ users[1].first_interaction = 0
    /\ users[1].last_interaction = 1
    /\ users[1].interaction_count = 2

\* a call with these details gets past validation and the empty-bag test
Processed(d) == Validations(d) = <<>> /\ Meaningful(d)

\* the merge of d into identity m would set an identifier that another
\* identity holds
Conflicting(us, d, m) ==
    \E f \in {"reg_no", "phone", "email"} : Holders(us, d, f) \ {m} # {}

\* C24: the interaction_count of an identity never decreases, and every
\* processed bag that resolves to an identity adds exactly 1 to its count,
\* also when the merge would set an identifier that another identity holds.
C24_Original ==
    [][/\ \A i \in DOMAIN users :
             users'[i].interaction_count >= users[i].interaction_count
       /\ CaptureStep /\ Processed(ud'[1]) /\ EarliestMatch(users, ud'[1]) # NoId
            => LET m == EarliestMatch(users, ud'[1])
               IN  users'[m].interaction_count = users[m].interaction_count + 1]_vars

\* C24 (amended): the interaction_count of an identity never decreases; a
\* processed bag that resolves to an identity adds exactly 1 to its count
\* when the store accepts the merge, and nothing when the merge would set an
\* identifier that another identity holds or the store is locked; no call
\* changes the count of another identity.
C24_CountedWhenAccepted ==
    [][/\ \A i \in DOMAIN users :
             users'[i].interaction_count >= users[i].interaction_count
       /\ CaptureStep /\ Processed(ud'[1]) /\ EarliestMatch(users, ud'[1]) # NoId
            => LET m == EarliestMatch(users, ud'[1])
               IN  /\ users'[m].interaction_count =
                         IF locked \/ Conflicting(users, ud'[1], m)
                         THEN users[m].interaction_count
                         ELSE users[m].interaction_count + 1
                   /\ \A i \in DOMAIN users \ {m} :
                         users'[i].interaction_count = users[i].interaction_count]_vars

\* a bag resolved to an identity by its reg_no and carrying the email of
\* another identity has left the count of the first as it was
C24_Witness ==
    /\ result[1].msg = "warning"
    /\ user_id[1] # NoId
    /\ Truthy(ud[1].reg_no)
    /\ Truthy(ud[1].email)
    /\ users[user_id[1]].reg_no = ud[1].reg_no
    /\ users[user_id[1]].interaction_count = 1
    /\ \E j \in DOMAIN users : j # user_id[1] /\ users[j].email = ud[1].email

\* C25: under any interleaving of calls, the user_id of every interaction
\* row is the id of an identity, also when a concurrent merge overwrites the
\* matched identifier between the lookup of is_new_user and the lookup of
\* find_existing_user.
C25_InteractionsReferToIdentities ==
    \A j \in DOMAIN interactions : interactions[j].user_id \in DOMAIN users

\* the bag d matches identity a by one identifier and another identity by
\* a later one
MatchesTwo(us, d, a) ==
    /\ a = EarliestMatch(us, d)
    /\ a # NoId
    /\ Conflicting(us, d, a)

\* C26: a processed bag whose identifiers match two identities, A by the
\* earlier field and B by a later one, is not merged: every identity stays
\* entirely as it was (no field, count or last_seen of A or B changes), no
\* interaction row is added, the bag is appended to the fallback log and the
\* call returns the recorded-with-warning result.
C26_ConflictNotMerged ==
    [][CaptureStep /\ Processed(ud'[1])
          /\ MatchesTwo(users, ud'[1], EarliestMatch(users, ud'[1]))
         => /\ users' = users
            /\ interactions' = interactions
            /\ csv' = save_to_csv(csv, ud'[1], now, isfile(csv))
            /\ result'[1].msg = "warning"
            /\ user_id'[1] = EarliestMatch(users, ud'[1])]_vars

\* a bag with the phone of one identity and the email of another has been
\* answered with the warning, at time 1, both identities as created at time 0
C26_Witness ==
    /\ result[1].msg = "warning"
    /\ Len(users) = 2
    /\ now = 1
    /\ Truthy(ud[1].phone)
    /\ Truthy(ud[1].email)
    /\ \E a, b \in DOMAIN users :
          /\ a # b
          /\ users[a].phone = ud[1].phone
          /\ users[b].email = ud[1].email
          /\ users[a].email = None
          /\ users[a].interaction_count = 1
          /\ users[b].interaction_count = 1
          /\ users[a].last_interaction = 0
          /\ users[b].last_interaction = 0
    /\ Len(interactions) = 2
    /\ Len(csv) = 4

\* by how much the interaction_count of identity i exceeds the number of
\* its interaction rows; 0 for an identity yet to be created
Unlogged(us, ints, i) ==
    IF i \in DOMAIN us THEN us[i].interaction_count - RowsOf(ints, i) ELSE 0

Records(log) == SelectSeq(log, LAMBDA line : ~line.header)

\* C28: a call leaves every line of the fallback log in place and appends at
\* most one record, the bag of the call stamped with the time of the call:
\* the append of the new-user path and the append of the handler do not both
\* take place.
C28_AtMostOneRecord ==
    [][/\ Len(csv') >= Len(csv)
       /\ SubSeq(csv', 1, Len(csv)) = csv
       /\ Len(Records(csv')) <= Len(Records(csv)) + 1
       /\ Len(Records(csv')) = Len(Records(csv)) + 1
            => /\ CaptureStep
               /\ csv'[Len(csv')].values = ud'[1]
               /\ csv'[Len(csv')].timestamp = now]_vars

\* the append of the new-user path failed and the append of the handler
\* wrote the one record of the call
C28_Witness ==
    /\ fault[1] = [store |-> "none", csv |-> 1]
    /\ result[1].msg = "warning"
    /\ Len(users) = 1
    /\ Len(Records(csv)) = 1
    /\ Len(csv) = 2

\* C29: under any interleaving of calls that reach save_to_csv the log
\* holds its header line once, at its head, and after it the record of every
\* call that has appended.
C29_HeaderOnce ==
    \A k \in DOMAIN csv : csv[k].header <=> k = 1

LowerCase ==
    <<"a", "b", "c", "d", "e", "f", "g", "h", "i", "j", "k", "l", "m",
      "n", "o", "p", "q", "r", "s", "t", "u", "v", "w", "x", "y", "z">>

UpperCase ==
    <<"A", "B", "C", "D", "E", "F", "G", "H", "I", "J", "K", "L", "M",
      "N", "O", "P", "Q", "R", "S", "T", "U", "V", "W", "X", "Y", "Z">>

\* a value with its lower-case letters turned into upper case
Upper(v) ==
    [n \in 1..Len(v) |->
        IF \E k \in 1..26 : LowerCase[k] = v[n]
        THEN UpperCase[CHOOSE k \in 1..26 : LowerCase[k] = v[n]]
        ELSE v[n]]

\* some identity holds a phone that differs from the bag's in non-digit
\* characters only, or a reg_no that differs from the bag's in letter case
\* only
VariantHeld(us, d) ==
    \E i \in DOMAIN us :
       \/ /\ Truthy(d.phone) /\ Truthy(us[i].phone)
          /\ us[i].phone # d.phone
          /\ SelectSeq(us[i].phone, IsDigit) = SelectSeq(d.phone, IsDigit)
       \/ /\ Truthy(d.reg_no) /\ Truthy(us[i].reg_no)
          /\ us[i].reg_no # d.reg_no
          /\ Upper(us[i].reg_no) = Upper(d.reg_no)

\* no identity holds a reg_no, phone or email equal to the one of the bag
NoneHeld(us, d) ==
    \A i \in DOMAIN us : \A k \in 1..3 :
        d[IdentifierFields[k]] # None => us[i][IdentifierFields[k]] # d[IdentifierFields[k]]

\* C30: identifiers are matched as the raw strings they were supplied and
\* stored as: a processed bag none of whose identifiers equals a stored one,
\* and whose phone differs from a stored phone in non-digit characters only
\* or whose reg_no differs from a stored reg_no in letter case only, is not
\* resolved to that identity; the call creates a further identity that holds
\* the bag's values unchanged.
C30_RawStringMatch ==
    [][CaptureStep /\ Processed(ud'[1]) /\ ~locked
          /\ VariantHeld(users, ud'[1])
          /\ NoneHeld(users, ud'[1])
         => /\ result'[1].msg = "new"
            /\ Len(users') = Len(users) + 1
            /\ users'[Len(users')].phone = ud'[1].phone
            /\ users'[Len(users')].reg_no = ud'[1].reg_no
            /\ \A j \in DOMAIN users : users'[j] = users[j]]_vars

\* two identities, the second created from a bag whose reg_no and phone are
\* the first one's up to letter case and spaces
C30_Witness ==
    /\ result[1].msg = "new"
    /\ Len(users) = 2
    /\ users[1].reg_no = CSE12
    /\ users[2].reg_no = cse12
    /\ users[1].phone = Phone1
    /\ users[2].phone = Phone1Spaced

====
